---- MODULE Spec2Model ----
(***************************************************************************)
(* The l20n resource parser of src/src/l20n/parse.rs as a state machine.   *)
(* A text is a sequence of one-character strings.  One Parser is built     *)
(* over an input text and parse() is run on it once; every loop iteration  *)
(* of parse() and of get_pattern() is one step.                            *)
(***************************************************************************)
EXTENDS Integers, Sequences, FiniteSets, TLC

VARIABLES
    input,            \* the &str handed to Parser::new
    source,           \* Parser.source: the characters the iterator still holds
    ch,               \* Parser.ch: Option<char>
    pos,              \* Parser.pos: u16
    pc,               \* where parse() stands
    entries,          \* parse(): entries
    result,           \* what parse() returned
    id,               \* get_entity(): id
    buffer,           \* get_pattern(): buffer
    pat_source,       \* get_pattern(): source
    quote_delimited,  \* get_pattern(): quote_delimited
    first_line        \* get_pattern(): first_line

vars == <<input, source, ch, pos, pc, entries, result, id, buffer, pat_source,
          quote_delimited, first_line>>

----------------------------------------------------------------------------
(* Characters *)

None == "None"
SP == " "
TAB == "\t"
NL == "\n"
CR == "\r"
QUOTE == "\""
PIPE == "|"
EQ == "="
HASH == "#"

Lower == {"a","b","c","d","e","f","g","h","i","j","k","l","m",
          "n","o","p","q","r","s","t","u","v","w","x","y","z"}
Upper == {"A","B","C","D","E","F","G","H","I","J","K","L","M",
          "N","O","P","Q","R","S","T","U","V","W","X","Y","Z"}
Digit == {"0","1","2","3","4","5","6","7","8","9"}

\* 'a'...'z' | 'A'...'Z' | '_'
IdStart == Lower \cup Upper \cup {"_"}
\* 'a'...'z' | 'A'...'Z' | '0'...'9' | '_' | '-'
IdCont == Lower \cup Upper \cup Digit \cup {"_", "-"}

\* pos is a u16
U16Modulus == 65536

----------------------------------------------------------------------------
(* Values of the AST *)

Identifier(name) == [name |-> name]
TextElement(value) == [value |-> value]
Pattern(src, elements) == [source |-> src, elements |-> elements]
Entity(ident, comment, value) == [id |-> ident, comment |-> comment, value |-> value]

NoResult == [tag |-> "None", entries |-> <<>>, error_message |-> ""]
Ok(es) == [tag |-> "Ok", entries |-> es, error_message |-> ""]
Err(msg) == [tag |-> "Err", entries |-> <<>>, error_message |-> msg]

UnexpectedEndOfInput == "Unexpected end of input."
ExpectedEquals == "Expected '='"
UnclosedString == "Unclosed string"
MalformedMultilineStringStart == "Multiline string should have the ID line empty"

----------------------------------------------------------------------------
(* The parser as a record, and the operations on it *)

NewParser(text) ==
    [input |-> text, source |-> text, ch |-> None, pos |-> 0,
     pc |-> "start", entries |-> <<>>, result |-> NoResult,
     id |-> Identifier(<<>>), buffer |-> <<>>, pat_source |-> <<>>,
     quote_delimited |-> FALSE, first_line |-> TRUE]

Bump(p) ==
    [p EXCEPT !.ch = IF p.source = <<>> THEN None ELSE Head(p.source),
              !.source = IF p.source = <<>> THEN <<>> ELSE Tail(p.source),
              !.pos = (p.pos + 1) % U16Modulus]

ch_is(p, c) == p.ch = c

RECURSIVE get_ws(_)
get_ws(p) ==
    IF ch_is(p, SP) \/ ch_is(p, NL) \/ ch_is(p, TAB) \/ ch_is(p, CR)
    THEN get_ws(Bump(p))
    ELSE p

\* get_line_ws that stops at a tab
RECURSIVE get_line_ws_spaces(_)
get_line_ws_spaces(p) ==
    IF ch_is(p, SP) THEN get_line_ws_spaces(Bump(p)) ELSE p

RECURSIVE get_line_ws(_)
get_line_ws(p) ==
    IF ch_is(p, SP) \/ ch_is(p, TAB) THEN get_line_ws(Bump(p)) ELSE p

\* the loop of get_identifier, stopping at a '-'
RECURSIVE get_identifier_loop_no_hyphen(_)
get_identifier_loop_no_hyphen(p) ==
    IF p.ch # None /\ p.ch \in IdCont \ {"-"}
    THEN get_identifier_loop_no_hyphen(
             Bump([p EXCEPT !.id = Identifier(Append(p.id.name, p.ch))]))
    ELSE p

\* the loop of get_identifier: p with the identifier's name in p.id
RECURSIVE get_identifier_loop(_)
get_identifier_loop(p) ==
    IF p.ch # None /\ p.ch \in IdCont
    THEN get_identifier_loop(
             Bump([p EXCEPT !.id = Identifier(Append(p.id.name, p.ch))]))
    ELSE p

\* get_identifier that steps over a character no identifier starts with
get_identifier_skip(p) ==
    IF p.ch = None
    THEN [ok |-> FALSE, p |-> p, err |-> UnexpectedEndOfInput]
    ELSE IF p.ch \in IdStart
         THEN [ok |-> TRUE,
               p |-> get_identifier_loop(
                         Bump([p EXCEPT !.id = Identifier(<<p.ch>>)])),
               err |-> ""]
         ELSE [ok |-> TRUE, p |-> Bump([p EXCEPT !.id = Identifier(<<>>)]),
               err |-> ""]

\* get_identifier: [ok, p, err]; p.id is the Identifier returned
get_identifier(p) ==
    IF p.ch = None
    THEN [ok |-> FALSE, p |-> p, err |-> UnexpectedEndOfInput]
    ELSE IF p.ch \in IdStart
         THEN [ok |-> TRUE,
               p |-> get_identifier_loop(
                         Bump([p EXCEPT !.id = Identifier(<<p.ch>>)])),
               err |-> ""]
         ELSE [ok |-> TRUE, p |-> [p EXCEPT !.id = Identifier(<<>>)], err |-> ""]

\* Fail that notes the error and lets parse go on
FailAndGoOn(p, msg) == [p EXCEPT !.result = Err(msg)]

Fail(p, msg) == [p EXCEPT !.pc = "done", !.result = Err(msg)]

\* parse(), up to the loop
parse_start(p) ==
    [Bump(get_ws([p EXCEPT !.entries = <<>>])) EXCEPT !.pc = "loop"]

\* parse(): the loop finds end of input
parse_break(p) == [p EXCEPT !.pc = "done", !.result = Ok(p.entries)]

\* get_pattern(), up to its loop
get_pattern_start(p) ==
    [p EXCEPT !.buffer = <<>>, !.pat_source = <<>>,
              !.quote_delimited = ch_is(p, QUOTE), !.first_line = TRUE,
              !.pc = "pattern"]

\* get_entry() -> get_entity(), up to the loop of get_pattern()
get_entity(p) ==
    LET r == get_identifier(p) IN
    IF ~r.ok THEN Fail(r.p, r.err)
    ELSE LET q == get_line_ws(r.p) IN
         IF ~ch_is(q, EQ) THEN Fail(q, ExpectedEquals)
         ELSE get_pattern_start(get_line_ws(Bump(q)))

\* pattern_newline that trims every space after '|'
pattern_newline_trim_all(p) ==
    IF p.quote_delimited THEN Fail(p, UnclosedString)
    ELSE LET q == get_line_ws(Bump(p)) IN
         IF ~ch_is(q, PIPE) THEN [q EXCEPT !.pc = "pattern_end"]
         ELSE IF q.first_line /\ Len(q.buffer) # 0
              THEN Fail(q, MalformedMultilineStringStart)
              ELSE LET s == get_line_ws(Bump(q))
                   IN [s EXCEPT !.first_line = FALSE,
                                !.buffer = IF Len(s.buffer) # 0
                                           THEN Append(s.buffer, NL)
                                           ELSE s.buffer]

\* pattern_newline that wants the identifier's line not empty
pattern_newline_inverted(p) ==
    IF p.quote_delimited THEN Fail(p, UnclosedString)
    ELSE LET q == get_line_ws(Bump(p)) IN
         IF ~ch_is(q, PIPE) THEN [q EXCEPT !.pc = "pattern_end"]
         ELSE IF q.first_line /\ Len(q.buffer) = 0
              THEN Fail(q, MalformedMultilineStringStart)
              ELSE LET b == Bump(q)
                       s == IF ch_is(b, SP) THEN Bump(b) ELSE b
                   IN [s EXCEPT !.first_line = FALSE,
                                !.buffer = IF Len(s.buffer) # 0
                                           THEN Append(s.buffer, NL)
                                           ELSE s.buffer]

\* pattern_newline that takes the character after the newline with it
pattern_newline_greedy(p) ==
    IF p.quote_delimited THEN Fail(p, UnclosedString)
    ELSE LET q == get_line_ws(Bump(p)) IN
         IF ~ch_is(q, PIPE) THEN [Bump(q) EXCEPT !.pc = "pattern_end"]
         ELSE IF q.first_line /\ Len(q.buffer) # 0
              THEN Fail(q, MalformedMultilineStringStart)
              ELSE LET b == Bump(q)
                       s == IF ch_is(b, SP) THEN Bump(b) ELSE b
                   IN [s EXCEPT !.first_line = FALSE,
                                !.buffer = IF Len(s.buffer) # 0
                                           THEN Append(s.buffer, NL)
                                           ELSE s.buffer]

\* get_pattern(): one iteration on '\n'
pattern_newline(p) ==
    IF p.quote_delimited THEN Fail(p, UnclosedString)
    ELSE LET q == get_line_ws(Bump(p)) IN
         IF ~ch_is(q, PIPE) THEN [q EXCEPT !.pc = "pattern_end"]
         ELSE IF q.first_line /\ Len(q.buffer) # 0
              THEN Fail(q, MalformedMultilineStringStart)
              ELSE LET b == Bump(q)
                       s == IF ch_is(b, SP) THEN Bump(b) ELSE b
                   IN [s EXCEPT !.first_line = FALSE,
                                !.buffer = IF Len(s.buffer) # 0
                                           THEN Append(s.buffer, NL)
                                           ELSE s.buffer]

\* pattern_quote that leaves quote_delimited as it is
pattern_quote_keep(p) == [Bump(p) EXCEPT !.pc = "pattern_end"]

\* get_pattern(): one iteration on '"'
pattern_quote(p) ==
    [Bump(p) EXCEPT !.quote_delimited = FALSE, !.pc = "pattern_end"]

\* pattern_char that forgets to bump
pattern_char_stuck(p) ==
    [p EXCEPT !.pat_source = Append(p.pat_source, p.ch),
              !.buffer = Append(p.buffer, p.ch)]

\* get_pattern(): one iteration on any other character
pattern_char(p) ==
    Bump([p EXCEPT !.pat_source = Append(p.pat_source, p.ch),
                   !.buffer = Append(p.buffer, p.ch)])

\* pattern_eof that bumps before it leaves the loop
pattern_eof_bump(p) == [Bump(p) EXCEPT !.pc = "pattern_end"]

\* get_pattern(): one iteration at end of input
pattern_eof(p) == [p EXCEPT !.pc = "pattern_end"]

\* the elements get_pattern() builds after its loop
pattern_elements(p) ==
    (IF Len(p.buffer) # 0 THEN <<TextElement(p.pat_source)>> ELSE <<>>)
        \o <<TextElement(p.pat_source)>>

\* get_pattern() after its loop, get_entity()'s Ok arm, and the rest of the
\* iteration of parse()
pattern_finish(p) ==
    IF p.quote_delimited THEN Fail(p, UnclosedString)
    ELSE LET value == Pattern(p.pat_source, pattern_elements(p))
             entry == Entity(p.id, None, value)
         IN [get_ws([p EXCEPT !.entries = Append(p.entries, entry)])
                EXCEPT !.pc = "loop"]

----------------------------------------------------------------------------
(* The state machine *)

State ==
    [input |-> input, source |-> source, ch |-> ch, pos |-> pos, pc |-> pc,
     entries |-> entries, result |-> result, id |-> id, buffer |-> buffer,
     pat_source |-> pat_source, quote_delimited |-> quote_delimited,
     first_line |-> first_line]

Starts(p) ==
    /\ input = p.input
    /\ source = p.source
    /\ ch = p.ch
    /\ pos = p.pos
    /\ pc = p.pc
    /\ entries = p.entries
    /\ result = p.result
    /\ id = p.id
    /\ buffer = p.buffer
    /\ pat_source = p.pat_source
    /\ quote_delimited = p.quote_delimited
    /\ first_line = p.first_line

Becomes(p) ==
    /\ input' = p.input
    /\ source' = p.source
    /\ ch' = p.ch
    /\ pos' = p.pos
    /\ pc' = p.pc
    /\ entries' = p.entries
    /\ result' = p.result
    /\ id' = p.id
    /\ buffer' = p.buffer
    /\ pat_source' = p.pat_source
    /\ quote_delimited' = p.quote_delimited
    /\ first_line' = p.first_line

\* one step of parse() on the parser record
Step(p) ==
    CASE p.pc = "start" -> parse_start(p)
      [] p.pc = "loop" /\ p.ch = None -> parse_break(p)
      [] p.pc = "loop" /\ p.ch # None -> get_entity(p)
      [] p.pc = "pattern" /\ p.ch = NL -> pattern_newline(p)
      [] p.pc = "pattern" /\ p.ch = QUOTE -> pattern_quote(p)
      [] p.pc = "pattern" /\ p.ch = None -> pattern_eof(p)
      [] p.pc = "pattern" /\ p.ch \notin {NL, QUOTE, None} -> pattern_char(p)
      [] p.pc = "pattern_end" -> pattern_finish(p)
      [] OTHER -> p

RECURSIVE Run(_)
Run(p) == IF p.pc = "done" THEN p ELSE Run(Step(p))

\* Parser::new(text).parse()
parse(text) == Run(NewParser(text)).result

----------------------------------------------------------------------------
(* The inputs *)

\* longest text over Sigma tried exhaustively
MaxLen == 4
\* most continuation lines after the identifier's line
MaxLines == 2
\* most entities of a document
MaxEntities == 2

Sigma == {"a", "1", EQ, SP, NL, PIPE, QUOTE, HASH}

Texts(S, n) == UNION {[1..k -> S] : k \in 0..n}

RECURSIVE Flatten(_)
Flatten(ss) == IF ss = <<>> THEN <<>> ELSE Head(ss) \o Flatten(Tail(ss))

IdSamples == {<<"a">>, <<"_", "a", "1", "-">>, <<"Z", "z">>, <<>>, <<"1">>}
WsSamples == {<<>>, <<SP>>, <<TAB>>, <<SP, TAB, SP>>}
ValSamples ==
    {<<>>, <<"b">>, <<"b", SP, "c">>, <<"b", PIPE, EQ, HASH>>, <<CR, "b", CR>>,
     <<"b", SP>>, <<QUOTE, "b", QUOTE>>, <<QUOTE, "b">>, <<QUOTE>>,
     <<QUOTE, QUOTE>>, <<"b", QUOTE, "c">>}
LineSamples ==
    {<<NL, PIPE, "c">>, <<NL, PIPE, SP, "c">>, <<NL, PIPE, SP, SP, "c", SP, "d">>,
     <<NL, SP, TAB, PIPE, "c">>, <<NL, PIPE>>, <<NL, PIPE, "c", QUOTE>>}
LeadSamples == {<<>>, <<SP>>, <<NL>>, <<TAB, CR>>}
TrailSamples == {<<>>, <<NL>>}
EntitySamples ==
    {<<"a", EQ, "b">>, <<"a", SP, EQ, SP, "b", SP, "c">>, <<"a", EQ>>,
     <<"a", EQ, NL, PIPE, SP, "b">>, <<"a", EQ, "b", NL, PIPE, "c">>,
     <<"a", "b">>, <<EQ, "b">>, <<"a", EQ, QUOTE, "b", QUOTE>>,
     <<HASH, "c">>}
SeparatorSamples == {<<NL>>, <<NL, NL>>, <<NL, SP, SP>>, <<SP>>}

\* I w1 '=' w2 V
SimpleInputs ==
    {i \o w1 \o <<EQ>> \o w2 \o v :
        i \in IdSamples, w1 \in WsSamples, w2 \in WsSamples, v \in ValSamples}

\* I '=' V and then continuation lines
MultilineInputs ==
    {<<"m", "u">> \o w \o <<EQ>> \o v \o Flatten(ls) \o t :
        w \in {<<>>, <<SP>>}, v \in {<<>>, <<"b">>, <<SP>>, <<SP, "b", SP>>},
        ls \in Texts(LineSamples, MaxLines), t \in TrailSamples}

\* whitespace, then entities with separators between them
RECURSIVE Documents(_)
Documents(n) ==
    IF n = 0 THEN {<<>>}
    ELSE Documents(n - 1) \cup
         {d \o s \o e : d \in Documents(n - 1) \ {<<>>}, s \in SeparatorSamples,
                        e \in EntitySamples}
         \cup EntitySamples

DocumentInputs ==
    {w \o d \o t : w \in LeadSamples, d \in Documents(MaxEntities),
                   t \in TrailSamples \cup {<<SP, NL>>}}

\* texts that start with a character of each kind the identifier scanner
\* tells apart, with an identifier that runs to the end of the input
ScannerInputs ==
    {<<"-", "a", EQ, "b">>, <<"9", "a", EQ, "b">>, <<"a", "-", "9", "_">>,
     <<"_", "-", "-", "Z", SP, EQ, "b">>, <<"a", "-", HASH, EQ, "b">>,
     <<"a", "=", "b", NL, "c", "-", "d">>, <<"a", "=", "b", NL, "-", "d", EQ>>}

Inputs ==
    Texts(Sigma, MaxLen) \cup SimpleInputs \cup MultilineInputs \cup DocumentInputs
        \cup ScannerInputs

----------------------------------------------------------------------------
(* The behaviours *)

Init == \E text \in Inputs : Starts(NewParser(text))

ParseStart == pc = "start" /\ Becomes(parse_start(State))

ParseBreak == pc = "loop" /\ ch = None /\ Becomes(parse_break(State))

GetEntity == pc = "loop" /\ ch # None /\ Becomes(get_entity(State))

PatternNewline == pc = "pattern" /\ ch = NL /\ Becomes(pattern_newline(State))

PatternQuote == pc = "pattern" /\ ch = QUOTE /\ Becomes(pattern_quote(State))

PatternChar ==
    pc = "pattern" /\ ch \notin {NL, QUOTE, None} /\ Becomes(pattern_char(State))

PatternEof == pc = "pattern" /\ ch = None /\ Becomes(pattern_eof(State))

PatternFinish == pc = "pattern_end" /\ Becomes(pattern_finish(State))

Next ==
    \/ ParseStart
    \/ ParseBreak
    \/ GetEntity
    \/ PatternNewline
    \/ PatternQuote
    \/ PatternChar
    \/ PatternEof
    \/ PatternFinish

Spec == Init /\ [][Next]_vars

----------------------------------------------------------------------------
(* The shapes of input the properties speak of.  Cut(s, a, b) is the part  *)
(* of s after its first a characters, up to its first b characters.        *)

Cut(s, a, b) == SubSeq(s, a + 1, b)
Rest(s, a) == SubSeq(s, a + 1, Len(s))
NoneOf(s, set) == \A n \in 1..Len(s) : s[n] \notin set
AllOf(s, set) == \A n \in 1..Len(s) : s[n] \in set

LineWs == {SP, TAB}
Whitespace == {SP, NL, TAB, CR}

\* [A-Za-z_][A-Za-z0-9_-]*
IsIdent(s) == Len(s) >= 1 /\ s[1] \in IdStart /\ AllOf(Tail(s), IdCont)

\* s = I w1 '=' w2 R with I = Cut(s, 0, i) an identifier, w1 and w2 runs of
\* spaces and tabs, and R = Rest(s, k): Body(i, k) holds of every such i, k
ForEveryHead(s, Body(_, _)) ==
    \A i \in 1..Len(s) : IsIdent(Cut(s, 0, i)) =>
        \A j \in i..(Len(s) - 1) : (AllOf(Cut(s, i, j), LineWs) /\ s[j + 1] = EQ) =>
            \A k \in (j + 1)..Len(s) : AllOf(Cut(s, j + 1, k), LineWs) => Body(i, k)

\* the same, for some i, k, with w1 and w2 at least nw characters long
ForSomeHead(s, nw, Body(_, _)) ==
    \E i \in 1..Len(s) : IsIdent(Cut(s, 0, i)) /\
        \E j \in (i + nw)..(Len(s) - 1) : AllOf(Cut(s, i, j), LineWs) /\ s[j + 1] = EQ /\
            \E k \in (j + 1 + nw)..Len(s) : AllOf(Cut(s, j + 1, k), LineWs) /\ Body(i, k)

\* parse returned Ok with one Entity, named name, without comment, whose
\* pattern has text elements and each of them holds text
OneEntity(r, name, text) ==
    /\ r.tag = "Ok"
    /\ Len(r.entries) = 1
    /\ r.entries[1].id = Identifier(name)
    /\ r.entries[1].comment = None
    /\ Len(r.entries[1].value.elements) >= 1
    /\ \A n \in 1..Len(r.entries[1].value.elements) :
           r.entries[1].value.elements[n] = TextElement(text)

----------------------------------------------------------------------------
(* C1 *)

\* a value on the identifier's line: not empty, no newline, no '"', no space
\* or tab at either end
IsValue(v) ==
    /\ Len(v) >= 1
    /\ NoneOf(v, {NL, QUOTE})
    /\ v[1] \notin LineWs
    /\ v[Len(v)] \notin LineWs

\* C1: an input I w1 '=' w2 V, with I an identifier, w1 and w2 runs of spaces
\* and tabs and V a value, parses to Ok with exactly one Entity, whose
\* identifier is I, whose comment is None and whose pattern text is V.
C1_SingleLineEntity ==
    pc = "done" =>
        ForEveryHead(input, LAMBDA i, k :
            IsValue(Rest(input, k)) =>
                OneEntity(result, Cut(input, 0, i), Rest(input, k)))

\* a parse of such an input has returned: a long identifier, whitespace on
\* both sides of '=', tabs among it, a value with a space inside
C1_Witness ==
    /\ pc = "done"
    /\ result.tag = "Ok"
    /\ \E n \in 1..Len(input) : input[n] = TAB
    /\ ForSomeHead(input, 1, LAMBDA i, k :
           /\ i >= 2
           /\ IsValue(Rest(input, k))
           /\ \E n \in (k + 1)..Len(input) : input[n] = SP)

----------------------------------------------------------------------------
(* C2 *)

\* r without its last character when that is a newline
DropFinalNewline(r) ==
    IF Len(r) >= 1 /\ r[Len(r)] = NL THEN SubSeq(r, 1, Len(r) - 1) ELSE r

\* r without its first character when that is a space
DropOneSpace(r) == IF Len(r) >= 1 /\ r[1] = SP THEN Tail(r) ELSE r

\* the text T of a continuation line '|' [space] T
LineText(r) == DropOneSpace(Tail(r))

\* C2: an input I w1 '=' w2 '\n' '|' [one space] T ['\n'] with T not empty and
\* without newline or '"' parses to Ok with exactly one Entity with identifier
\* I and pattern text T: the '|' and one space after it are removed, a second
\* space stays, the pattern ends at the final newline or the end of input.
C2_SingleContinuationLine ==
    pc = "done" =>
        ForEveryHead(input, LAMBDA i, k :
            LET line == DropFinalNewline(Rest(input, k + 1)) IN
            ( /\ k + 2 <= Len(input)
              /\ input[k + 1] = NL
              /\ input[k + 2] = PIPE
              /\ Len(LineText(line)) >= 1
              /\ NoneOf(LineText(line), {NL, QUOTE}) )
            => OneEntity(result, Cut(input, 0, i), LineText(line)))

\* a parse of such an input has returned: two spaces after '|', the second
\* of which is the first character of T, and a final newline
C2_Witness ==
    /\ pc = "done"
    /\ result.tag = "Ok"
    /\ Len(input) >= 1
    /\ input[Len(input)] = NL
    /\ ForSomeHead(input, 0, LAMBDA i, k :
           LET line == DropFinalNewline(Rest(input, k + 1)) IN
           /\ k + 2 <= Len(input)
           /\ input[k + 1] = NL
           /\ input[k + 2] = PIPE
           /\ Len(LineText(line)) >= 2
           /\ LineText(line)[1] = SP
           /\ NoneOf(LineText(line), {NL, QUOTE}))

----------------------------------------------------------------------------
(* C3 *)

\* C3: an input I w1 '=' w2 '"' T '"' with T without newline or '"' parses to
\* Ok with exactly one Entity with identifier I and pattern text T.
C3_QuotedLiteral ==
    pc = "done" =>
        ForEveryHead(input, LAMBDA i, k :
            ( /\ k + 2 <= Len(input)
              /\ input[k + 1] = QUOTE
              /\ input[Len(input)] = QUOTE
              /\ NoneOf(Cut(input, k + 1, Len(input) - 1), {NL, QUOTE}) )
            => OneEntity(result, Cut(input, 0, i),
                         Cut(input, k + 1, Len(input) - 1)))

----------------------------------------------------------------------------
(* C4 *)

\* r up to its first newline
RECURSIVE FirstLine(_)
FirstLine(r) ==
    IF r = <<>> \/ Head(r) = NL THEN <<>> ELSE <<Head(r)>> \o FirstLine(Tail(r))

\* C4: an input I w1 '=' w2 '"' R in which no '"' follows before the next
\* newline or the end of input fails with "Unclosed string".
C4_UnclosedString ==
    pc = "done" =>
        ForEveryHead(input, LAMBDA i, k :
            ( /\ k + 1 <= Len(input)
              /\ input[k + 1] = QUOTE
              /\ NoneOf(FirstLine(Rest(input, k + 1)), {QUOTE}) )
            => result = Err(UnclosedString))

----------------------------------------------------------------------------
(* C5 *)

\* the line after the first newline of r starts, after spaces and tabs,
\* with '|'
ContinuationFollows(r) ==
    \E m \in (Len(FirstLine(r)) + 1)..(Len(r) - 1) :
        /\ r[Len(FirstLine(r)) + 1] = NL
        /\ AllOf(Cut(r, Len(FirstLine(r)) + 1, m), LineWs)
        /\ r[m + 1] = PIPE

\* the text from the current character on
Ahead == IF ch = None THEN <<>> ELSE <<ch>> \o source

\* C5: when an entity starts (the entry loop stands at a character) and the
\* text from there on is I w1 '=' w2 X '\n' w3 '|' ..., with X a non-empty
\* value text without '"', parse fails with "Multiline string should have the
\* ID line empty"; when it is I w1 '=' w2 '\n' w3 '|' T ['\n'], with T without
\* newline or '"', parse does not fail with it.
C5_MalformedMultilineStart ==
    (pc = "loop" /\ ch # None) =>
        ForEveryHead(Ahead, LAMBDA i, k :
            LET r == Rest(Ahead, k) IN
            /\ ( /\ Len(FirstLine(r)) >= 1
                 /\ r[1] \notin LineWs
                 /\ NoneOf(FirstLine(r), {QUOTE})
                 /\ ContinuationFollows(r) )
               => Run(State).result = Err(MalformedMultilineStringStart)
            /\ ( /\ Len(FirstLine(r)) = 0
                 /\ ContinuationFollows(r)
                 /\ NoneOf(DropFinalNewline(Tail(r)), {NL, QUOTE}) )
               => Run(State).result # Err(MalformedMultilineStringStart))

\* parse has failed on its second entity, a value followed by a continuation
\* line
C5_Witness ==
    /\ pc = "done"
    /\ result = Err(MalformedMultilineStringStart)
    /\ Len(entries) = 1
    /\ Len(buffer) >= 1
    /\ first_line
    /\ ch = PIPE

----------------------------------------------------------------------------
(* C6 *)

\* the runs of whitespace put before the input
LeadingRuns == Texts(Whitespace, 2) \ {<<>>}

\* C6: whitespace before the first entry is skipped: parse(w ++ input) returns
\* what parse(input) returns, for every run w of whitespace, and an input of
\* whitespace alone returns Ok with no entries.
C6_LeadingWhitespaceSkipped ==
    pc = "done" =>
        /\ \A w \in LeadingRuns : parse(w \o input) = result
        /\ AllOf(input, Whitespace) => result = Ok(<<>>)

----------------------------------------------------------------------------
(* C7 *)

\* the characters the cursor has not passed: the current one and those the
\* iterator still holds
Remaining == Len(source) + (IF ch = None THEN 0 ELSE 1)

\* how far parse is from its return within one position of the cursor
Rank ==
    CASE pc = "start" -> 4
      [] pc = "pattern" -> 3
      [] pc = "pattern_end" -> 2
      [] pc = "loop" -> 1
      [] OTHER -> 0

\* a bound on the steps parse still takes
Variant == 5 * Remaining + Rank

\* an iteration of the entry loop (from "loop") or of the pattern loop (from
\* "pattern") advances the cursor or leaves the loop, and every step brings
\* parse nearer to its return
LoopsAdvance ==
    /\ Variant' < Variant
    /\ pc \in {"loop", "pattern"} =>
           pc' \in {"done", "pattern_end"} \/ Remaining' < Remaining

\* parse has returned Ok with the entries or one ParseError
Returned ==
    /\ pc = "done"
    /\ \/ result = Ok(entries)
       \/ result.tag = "Err" /\ result.error_message # "" /\ result.entries = <<>>

----------------------------------------------------------------------------
(* C8 *)

\* C8: every pattern parsed has exactly one TextElement, its text empty or
\* not.
C8_OneTextElement ==
    \A n \in 1..Len(entries) : Len(entries[n].value.elements) = 1

----------------------------------------------------------------------------
(* C9 *)

\* r cut at its newlines
RECURSIVE SplitLines(_)
SplitLines(r) ==
    IF NoneOf(r, {NL}) THEN <<r>>
    ELSE <<FirstLine(r)>> \o SplitLines(Rest(r, Len(FirstLine(r)) + 1))

\* the texts of the continuation lines ls, joined by newlines
RECURSIVE JoinedText(_)
JoinedText(ls) ==
    IF Len(ls) = 1 THEN LineText(ls[1])
    ELSE LineText(ls[1]) \o <<NL>> \o JoinedText(Tail(ls))

\* C9: an input I w1 '=' w2 and then k >= 2 lines '|' [one space] Ti parses to
\* one Entity whose pattern text is T1 '\n' T2 '\n' ... Tk.
C9_ContinuationLinesJoined ==
    pc = "done" =>
        ForEveryHead(input, LAMBDA i, k :
            LET ls == SplitLines(DropFinalNewline(Rest(input, k + 1))) IN
            ( /\ k + 1 <= Len(input)
              /\ input[k + 1] = NL
              /\ Len(ls) >= 2
              /\ \A n \in 1..Len(ls) :
                     Len(ls[n]) >= 1 /\ ls[n][1] = PIPE /\ NoneOf(ls[n], {QUOTE}) )
            => OneEntity(result, Cut(input, 0, i), JoinedText(ls)))

----------------------------------------------------------------------------
(* C10 *)

\* C10: every Entity of a successful parse has a non-empty identifier.
C10_IdentifierNotEmpty ==
    (pc = "done" /\ result.tag = "Ok") =>
        \A n \in 1..Len(result.entries) : result.entries[n].id.name # <<>>
----------------------------------------------------------------------------
(* C11 *)

\* C11: an input whose first character is '#' makes parse return an error,
\* and no entries.
C11_HashRejected ==
    (pc = "done" /\ Len(input) >= 1 /\ input[1] = HASH) =>
        result.tag = "Err" /\ result.entries = <<>>

\* parse has returned on an input that starts with '#' and goes on with '='
\* and a value
C11_Witness ==
    /\ pc = "done"
    /\ Len(input) >= 3
    /\ input[1] = HASH
    /\ input[2] = EQ
    /\ input[3] \in IdStart
----------------------------------------------------------------------------
(* C12 *)

\* the cuts <<i, k>> of a line I w1 '=' w2 V, I = Cut(s, 0, i) an identifier
\* and V = Rest(s, k) a value
HeadCuts(s) ==
    {c \in (1..Len(s)) \X (1..Len(s)) :
        /\ IsIdent(Cut(s, 0, c[1]))
        /\ IsValue(Rest(s, c[2]))
        /\ \E j \in c[1]..(c[2] - 1) :
               /\ AllOf(Cut(s, c[1], j), LineWs)
               /\ s[j + 1] = EQ
               /\ AllOf(Cut(s, j + 1, c[2]), LineWs)}

\* a line without its indentation
RECURSIVE Unindented(_)
Unindented(s) ==
    IF s # <<>> /\ Head(s) \in LineWs THEN Unindented(Tail(s)) ELSE s

\* the lines of ls that are not blank, without their indentation
RECURSIVE EntityLines(_)
EntityLines(ls) ==
    IF ls = <<>> THEN <<>>
    ELSE (IF Unindented(Head(ls)) = <<>> THEN <<>> ELSE <<Unindented(Head(ls))>>)
             \o EntityLines(Tail(ls))

\* the input is n >= 1 single-line entities, each on a line of its own, the
\* first at the start of the input, the later ones indented or not, with
\* blank lines between and after them
IsEntityLines(s) ==
    LET ls == SplitLines(s) IN
    /\ HeadCuts(ls[1]) # {}
    /\ \A n \in 1..Len(ls) :
           Unindented(ls[n]) = <<>> \/ HeadCuts(Unindented(ls[n])) # {}

\* entry e is the Entity the line says: its identifier, no comment, its value
\* as the text
IsEntityOf(e, line) ==
    LET c == CHOOSE c \in HeadCuts(line) : TRUE IN
    /\ e.id = Identifier(Cut(line, 0, c[1]))
    /\ e.comment = None
    /\ Len(e.value.elements) >= 1
    /\ \A n \in 1..Len(e.value.elements) :
           e.value.elements[n] = TextElement(Rest(line, c[2]))

\* C12: an input of n >= 1 single-line entities, each on its own line, with
\* blank lines or indentation between them, parses to Ok with exactly n
\* Entities in the order of the lines: a pattern ends at its newline, and the
\* first character of the next line starts the next identifier.
C12_EntitiesInSourceOrder ==
    (pc = "done" /\ IsEntityLines(input)) =>
        LET lines == EntityLines(SplitLines(input)) IN
        /\ result.tag = "Ok"
        /\ Len(result.entries) = Len(lines)
        /\ \A n \in 1..Len(lines) : IsEntityOf(result.entries[n], lines[n])

\* parse has returned two different entities, the second on an indented line
C12_Witness ==
    /\ pc = "done"
    /\ IsEntityLines(input)
    /\ Len(result.entries) >= 2
    /\ result.entries[1] # result.entries[2]
    /\ \E n \in 1..(Len(input) - 1) : input[n] = NL /\ input[n + 1] = SP
----------------------------------------------------------------------------
(* C13 *)

\* what a step that ends in an error leaves behind: parse has returned, with
\* the error alone, and the cursor stands where the error was found
StopsAtError ==
    /\ pc' = "done"
    /\ result'.entries = <<>>
    /\ result'.error_message \in
           {UnexpectedEndOfInput, ExpectedEquals, UnclosedString,
            MalformedMultilineStringStart}
    /\ entries' = entries
    /\ result'.error_message = ExpectedEquals =>
           /\ pc = "loop"
           /\ ch' # EQ
           /\ \A c \in LineWs : ch' # c
    /\ result'.error_message = MalformedMultilineStringStart =>
           /\ pc = "pattern"
           /\ ch' = PIPE
           /\ first_line'
           /\ Len(buffer') # 0

\* C13: parse is all-or-nothing: the step on which an entity fails is the
\* last one, it returns Err with that error and none of the entries parsed
\* before, and once parse has returned nothing more of the input is read.
C13_AllOrNothing ==
    [][ /\ pc # "done"
        /\ result.tag = "None"
        /\ result'.tag = "Err" => StopsAtError
        /\ result'.tag = "Ok" => pc' = "done" /\ result'.entries = entries ]_vars

\* parse has failed on its third entity and returned the error alone, with
\* text left unread
C13_Witness ==
    /\ pc = "done"
    /\ result.tag = "Err"
    /\ result.entries = <<>>
    /\ Len(entries) >= 2
    /\ Len(source) >= 1
----------------------------------------------------------------------------
(* C15 *)

\* C15: a '"' inside a pattern that does not start with one is ordinary
\* content: an input I w1 '=' w2 X '"' Y, with X not empty and without
\* newline in X or Y, parses to one Entity whose pattern text is X '"' Y.
C15_QuoteIsContent ==
    pc = "done" =>
        ForEveryHead(input, LAMBDA i, k :
            LET v == Rest(input, k) IN
            ( /\ Len(v) >= 2
              /\ NoneOf(v, {NL})
              /\ v[1] \notin LineWs \cup {QUOTE}
              /\ v[Len(v)] \notin LineWs
              /\ \E n \in 2..Len(v) : v[n] = QUOTE )
            => OneEntity(result, Cut(input, 0, i), v))
----------------------------------------------------------------------------
(* C16 *)

\* the length of the longest identifier s starts with, 0 when it starts with
\* none
MaximalIdent(s) ==
    IF s = <<>> \/ s[1] \notin IdStart THEN 0
    ELSE CHOOSE n \in 1..Len(s) :
             /\ IsIdent(Cut(s, 0, n))
             /\ n = Len(s) \/ s[n + 1] \notin IdCont

\* C16: where the entry loop calls the identifier scanner, the scanner takes
\* the longest identifier the text ahead starts with and stops on the first
\* character after it, or at the end of input, without consuming it; when
\* the current character starts no identifier it returns an empty name and
\* leaves the position and the current character as they are.
C16_MaximalMunch ==
    (pc = "loop" /\ ch # None) =>
        LET r == get_identifier(State)
            n == MaximalIdent(Ahead)
        IN /\ r.ok
           /\ r.p.id = Identifier(Cut(Ahead, 0, n))
           /\ r.p.pos = pos + n
           /\ r.p.ch = IF n = Len(Ahead) THEN None ELSE Ahead[n + 1]
           /\ r.p.source = IF n = Len(Ahead) THEN <<>> ELSE Rest(Ahead, n + 1)
           /\ ch \notin IdStart =>
                  /\ r.p.id = Identifier(<<>>)
                  /\ r.p.pos = pos /\ r.p.ch = ch /\ r.p.source = source

\* the entity parser has scanned, from the second line of the input, an
\* identifier with a '-' in it that ends at the end of the input
C16_Witness ==
    /\ pc = "done"
    /\ Len(entries) = 1
    /\ Len(id.name) >= 3
    /\ \E n \in 2..Len(id.name) : id.name[n] = "-"
    /\ ch = None
    /\ result = Err(ExpectedEquals)
----------------------------------------------------------------------------
(* C17 *)

\* C17: the only errors parse returns are "Expected '='" and "Multiline
\* string should have the ID line empty".  The identifier scanner is never
\* called at end of input, and quote_delimited is set only while the pattern
\* loop stands on the opening '"' before its first iteration, which clears
\* it: "Unexpected end of input." and "Unclosed string" are never returned.
C17_OnlyTwoErrors ==
    /\ result.tag = "Err" =>
           result.error_message \in {ExpectedEquals, MalformedMultilineStringStart}
    /\ quote_delimited =>
           pc = "pattern" /\ ch = QUOTE /\ buffer = <<>> /\ pat_source = <<>>
    /\ (pc = "loop" /\ ch # None) => get_identifier(State).ok

\* parse has returned an error on an input whose last pattern starts with a
\* '"' that nothing closes
C17_Witness ==
    /\ pc = "done"
    /\ result.tag = "Err"
    /\ Len(entries) >= 1
    /\ \E n \in 2..Len(input) :
           /\ input[n - 1] = EQ
           /\ input[n] = QUOTE
           /\ NoneOf(Rest(input, n), {QUOTE})
           /\ Len(Rest(input, n)) >= 1
----------------------------------------------------------------------------
(* C18 *)

\* the characters bump has taken from the iterator
Taken == Len(input) - Len(source)

\* the calls of bump that found the iterator empty
BumpsAtEnd == IF pc # "start" /\ ch = None THEN 1 ELSE 0

====
